---- MODULE Spec2Model ----
(***************************************************************************)
(* smartchat: the conversation store (internal/service/chat) over Redis,   *)
(* as a state machine.  Every Redis command is one atomic step of the      *)
(* store; a TxPipeline (MULTI/EXEC) is one atomic step.  Request handlers  *)
(* run concurrently and hold no shared in-process state.                   *)
(*                                                                         *)
(* Strings that the code inspects byte by byte (titles, message contents)  *)
(* are sequences of bytes, as Go strings are.  User identities and roles   *)
(* are only compared for equality and stay TLA+ strings.                   *)
(***************************************************************************)
EXTENDS Integers, Sequences, FiniteSets, TLC

\* ------------------------------------------------------------------ bounds
MaxChats == 2       \* chat identifiers that uuid.NewString() can hand out
MaxCalls == 3       \* operations started in one run of concurrent requests
MaxCallsSeq == 4    \* operations started in one run of one request at a time
MaxCallsAuth == 4   \* requests one browser sends in one run of the login routes
MaxTime == 1        \* the clock runs 0..MaxTime
MaxListed == 21     \* chats one user owns when only listings run

\* ------------------------------------------------------- program constants
TitleMax == 32      \* chat.go:234  len(trimmed) > 32
ListLast == 19      \* chat.go:71   LRange(..., 0, 19)

Procs == {"p1", "p2"}
Users == {"ann", "Ann"}
ChatIds == 1..MaxChats

\* ------------------------------------------------------------ byte strings
Rep(b, n) == [i \in 1..n |-> b]

NewChatTitle == <<78, 101, 119, 32, 99, 104, 97, 116>>        \* "New chat"
Blank == <<32, 32>>                                           \* "  "
Hi == <<104, 105>>                                            \* "hi"
Yo == <<121, 111>>                                            \* "yo"
PaddedSentinel == <<32>> \o NewChatTitle \o <<32>>            \* " New chat "
LongAscii == <<32>> \o Rep(97, 40) \o <<10>>                  \* " aaaa...a\n"
EAcute == <<195, 169>>                                        \* U+00E9
LongAccents == <<97>> \o [i \in 1..40 |-> EAcute[2 - (i % 2)]] \* "a" ++ 20 * U+00E9
Work == <<87, 111, 114, 107>>                                 \* "Work"

\* unicode.IsSpace on the ASCII range: \t \n \v \f \r and space
IsSpace(b) == b \in {9, 10, 11, 12, 13, 32}

RECURSIVE TrimLeft(_)
TrimLeft(s) ==
    IF s # <<>> /\ IsSpace(Head(s)) THEN TrimLeft(Tail(s)) ELSE s

RECURSIVE TrimRight(_)
TrimRight(s) ==
    IF s # <<>> /\ IsSpace(s[Len(s)]) THEN TrimRight(SubSeq(s, 1, Len(s) - 1)) ELSE s

\* strings.TrimSpace
TrimSpace(s) == TrimRight(TrimLeft(s))

\* Width of the UTF-8 sequence a lead byte announces; 0 for a byte that cannot lead.
RuneWidth(b) ==
    IF b < 128 THEN 1
    ELSE IF b >= 194 /\ b <= 223 THEN 2
    ELSE IF b >= 224 /\ b <= 239 THEN 3
    ELSE IF b >= 240 /\ b <= 244 THEN 4
    ELSE 0

IsCont(b) == b >= 128 /\ b <= 191

\* Does a well-formed rune start at s[i]?
RuneAt(s, i) ==
    LET w == RuneWidth(s[i])
    IN  /\ w > 0
        /\ i + w - 1 <= Len(s)
        /\ \A k \in (i + 1)..(i + w - 1) : IsCont(s[k])

ReplacementChar == <<239, 191, 189>>                          \* U+FFFD

\* encoding/json on a Go string, there and back: well-formed runes survive,
\* every byte that is not part of one comes back as U+FFFD.
RECURSIVE JsonFrom(_, _)
JsonFrom(s, i) ==
    IF i > Len(s) THEN <<>>
    ELSE IF RuneAt(s, i)
         THEN SubSeq(s, i, i + RuneWidth(s[i]) - 1) \o JsonFrom(s, i + RuneWidth(s[i]))
         ELSE ReplacementChar \o JsonFrom(s, i + 1)

JsonString(s) == JsonFrom(s, 1)

\* The first n characters (runes) of s, an ill-formed byte counting as one.
RECURSIVE RunesFrom(_, _, _)
RunesFrom(s, i, n) ==
    IF i > Len(s) \/ n = 0 THEN <<>>
    ELSE LET w == IF RuneAt(s, i) THEN RuneWidth(s[i]) ELSE 1
         IN  SubSeq(s, i, i + w - 1) \o RunesFrom(s, i + w, n - 1)

FirstRunes(s, n) == RunesFrom(s, 1, n)

\* summarizeTitle  (chat.go:232-238): a cut at 32 bytes
summarizeTitle(content) ==
    LET trimmed == TrimSpace(content)
    IN  IF Len(trimmed) > TitleMax THEN SubSeq(trimmed, 1, TitleMax) ELSE trimmed

\* strings.ToLower, of ASCII
Lower(s) == [i \in 1..Len(s) |-> IF s[i] \in 65..90 THEN s[i] + 32 ELSE s[i]]

\* strings.Index(s, ","), counted from 1; 0 when there is none
IndexComma(s) ==
    IF \E i \in 1..Len(s) : s[i] = 44
    THEN CHOOSE i \in 1..Len(s) : s[i] = 44 /\ \A j \in 1..(i - 1) : s[j] # 44
    ELSE 0

\* strings.Split(s, ",")
RECURSIVE Split(_)
Split(s) ==
    IF IndexComma(s) = 0 THEN <<s>>
    ELSE <<SubSeq(s, 1, IndexComma(s) - 1)>> \o Split(SubSeq(s, IndexComma(s) + 1, Len(s)))

\* splitCSV: the parts trimmed, the empty ones dropped
splitCSV(value) ==
    IF value = <<>> THEN <<>>
    ELSE LET parts == Split(value)
             trimmed == [i \in 1..Len(parts) |-> TrimSpace(parts[i])]
         IN  SelectSeq(trimmed, LAMBDA part : part # <<>>)

\* A float64: the number n/d (d > 0), an infinity of sign n, or NaN.  Decimal
\* inputs are kept exact; rounding to the nearest float64 is monotone and is applied
\* to the inputs and to the literals they are compared with alike.
Dec(n, d) == [kind |-> "num", n |-> n, d |-> d]
Inf(sign) == [kind |-> "inf", n |-> sign, d |-> 1]
NaN == [kind |-> "nan", n |-> 0, d |-> 1]

\* The literals 0.1, 0.5 and 1.0
Tenth == Dec(1, 10)
Half == Dec(1, 2)
One == Dec(1, 1)

\* a < b on float64: false whenever an operand is NaN
Less(a, b) ==
    IF a.kind = "nan" \/ b.kind = "nan" THEN FALSE
    ELSE IF a.kind = "inf" THEN a.n < 0 /\ ~(b.kind = "inf" /\ b.n < 0)
    ELSE IF b.kind = "inf" THEN b.n > 0
    ELSE a.n * b.d < b.n * a.d

\* a == b on float64: false whenever an operand is NaN
Equal(a, b) ==
    IF a.kind = "nan" \/ b.kind = "nan" THEN FALSE
    ELSE IF a.kind = "inf" \/ b.kind = "inf" THEN a.kind = b.kind /\ a.n = b.n
    ELSE a.n * b.d = b.n * a.d

RECURSIVE Pow10(_)
Pow10(k) == IF k = 0 THEN 1 ELSE 10 * Pow10(k - 1)

\* The number a string of decimal digits writes
RECURSIVE DigitsValue(_)
DigitsValue(s) ==
    IF s = <<>> THEN 0
    ELSE 10 * DigitsValue(SubSeq(s, 1, Len(s) - 1)) + (s[Len(s)] - 48)

\* strconv.ParseFloat(s, 64), for inputs without exponent, hex prefix or underscore:
\* "inf", "infinity" (signed or not) and "nan" (unsigned) in any case, or a sign,
\* digits and at most one point with a digit somewhere; anything else is an error.
ParseFloat(s) ==
    IF s = <<>> THEN [value |-> Dec(0, 1), err |-> TRUE]
    ELSE
      LET signed == s[1] \in {43, 45}
          sign == IF s[1] = 45 THEN 0 - 1 ELSE 1
          body == IF signed THEN Tail(s) ELSE s
          points == {i \in 1..Len(body) : body[i] = 46}
          digits == SelectSeq(body, LAMBDA b : b \in 48..57)
      IN  IF Lower(body) \in {<<105, 110, 102>>, <<105, 110, 102, 105, 110, 105, 116, 121>>}
          THEN [value |-> Inf(sign), err |-> FALSE]
          ELSE IF ~signed /\ Lower(body) = <<110, 97, 110>>
          THEN [value |-> NaN, err |-> FALSE]
          ELSE IF /\ digits # <<>>
                  /\ Cardinality(points) <= 1
                  /\ Len(digits) + Cardinality(points) = Len(body)
          THEN [value |-> Dec(sign * DigitsValue(digits),
                              IF points = {} THEN 1
                              ELSE Pow10(Len(body) - (CHOOSE i \in points : TRUE))),
                err |-> FALSE]
          ELSE [value |-> Dec(0, 1), err |-> TRUE]

\* clampTemperature (handler.go:345-353)
clampTemperature(value) ==
    IF Less(value, Tenth) THEN Tenth
    ELSE IF Less(One, value) THEN One
    ELSE value

\* No temperature: what session.Values[sessionTemperature] is before one is stored
NoFloat == [kind |-> "nil", n |-> 0, d |-> 1]

\* The Values of a session nothing was stored in.  An absent value and an empty
\* string read alike wherever the handlers read these back, the model and the
\* temperature apart, which are tested against nil.
NoValues ==
    [model |-> <<>>, temperature |-> NoFloat,
     userEmail |-> "", oauthState |-> "", oauthProvider |-> ""]

\* The state check of HandleOAuthCallback passes (handler.go:115-118)
stateMatchesAnyProvider(values, state, provider) ==
    values.oauthState # "" /\ values.oauthProvider # "" /\ values.oauthState = state

stateMatches(values, state, provider) ==
    ~(\/ values.oauthState = ""
      \/ values.oauthProvider = ""
      \/ values.oauthState # state
      \/ values.oauthProvider # provider)

\* What HandleOAuthCallback stores in the session once the email is fetched
\* (handler.go:131-139)
LoggedIn(values, email, Models) ==
    [values EXCEPT !.userEmail = email,
                   !.oauthState = "",
                   !.oauthProvider = "",
                   !.temperature = IF @ = NoFloat THEN Half ELSE @,
                   !.model = IF @ = <<>> /\ Len(Models) > 0 THEN Models[1] ELSE @]

\* What a login leaves in a new session
Login(Models) == LoggedIn(NoValues, "ann", Models)

\* ------------------------------------------------------------------- state
VARIABLES
    chatmeta,       \* chatmeta:<id>      key -> ChatSummary, as json.Unmarshal reads it back
    chatowner,      \* chatowner:<id>     key -> owning user
    chatmessages,   \* chatmessages:<id>  list of Messages, as json.Unmarshal reads them back
    userchats,      \* userchats:<email>  list of chat ids
    now,            \* the wall clock behind time.Now()
    issued,         \* identifiers uuid.NewString() has handed out
    calls,          \* operations started so far (bounds the run)
    proc,           \* per request: where it is in its operation, and its locals
    ret,            \* what the operation that returned in the last step returned
    cfg,            \* this run (fixed by Init): who runs, which contents are sent, and
                    \* flaky, the chats whose summary the store may fail to return,
                    \* roles and replies, the roles callers pass and the backend answers
    appended,       \* history: per chat, the Messages in the order their RPush was applied
    titleHist,      \* history: per chat, the title it was created with and the content of
                    \* the first append that succeeded with a content not blank
    appendHist,     \* history: per chat, failed: an AppendMessage or RunCompletion on it
                    \* returned an error; raced: one started while another was running;
                    \* returned: the Messages they returned with no error, in that order
    session         \* the Values of the caller's session, as its cookie carries them

store == <<chatmeta, chatowner, chatmessages, userchats>>
vars == <<chatmeta, chatowner, chatmessages, userchats, now, issued, calls, proc, ret, cfg,
          appended, titleHist, appendHist, session>>

\* Go zero values, returned next to an error
NoSummary == [id |-> 0, title |-> <<>>, updatedAt |-> 0]
NoMessage == [role |-> "", content |-> <<>>, createdAt |-> 0]
NoReply == [role |-> "", content |-> <<>>, usage |-> 0]

ArgRoles == {"user"}                \* the role the handler passes to AppendMessage
ReplyRoles == {"assistant"}         \* what the backend answers with
Usages == {7, 9}                    \* token counts the backend reports with a reply

ErrUnauthorized == "not authorized"     \* chat.go:97,119,143
ErrStore == "store error"               \* an error of a Redis call (redis.Nil of a Get included)
ErrBackend == "completion error"        \* an error of AI.ChatCompletion

\* A request's locals.  ids/at: the ids ListChats read and the next to resolve;
\* skipped (history): the ids whose summary ListChats could not read;
\* meta: the summary touchChat read, summary: the one it writes.
\* reply: what the backend answered; usage: the usage RunCompletion returns.
\* wrote and had are history: the store writes the operation has made, and the
\* number of chats its caller owned when it started.
\* post: the call is made by PostMessage; userMessage: what its AppendMessage returned.
\* values: the session as HandleOAuthCallback decoded it; query: what it was called with.
NoQuery == [state |-> "", code |-> "", provider |-> ""]

Idle ==
    [pc |-> "ready", op |-> "", user |-> "", chat |-> 0, content |-> <<>>,
     ids |-> <<>>, at |-> 1, summaries |-> <<>>, skipped |-> {},
     meta |-> NoSummary, summary |-> NoSummary,
     message |-> NoMessage, messages |-> <<>>, reply |-> NoReply, usage |-> 0,
     err |-> "", wrote |-> 0, had |-> 0, post |-> FALSE, userMessage |-> NoMessage,
     values |-> NoValues, query |-> NoQuery]

NoRet == Idle

\* A request may start an operation.  Requests are anonymous and keep nothing
\* between operations: a new one takes the first free slot.
Ready(p) ==
    /\ p \in cfg.procs
    /\ proc[p].pc = "ready"
    /\ p = "p1" \/ proc["p1"].pc # "ready"
    /\ calls < cfg.calls

Appends == {"AppendMessage", "RunCompletion"}

\* An AppendMessage or RunCompletion of another request is running on chat c
Running(p, c) ==
    \E q \in Procs \ {p} : proc[q].pc # "ready" /\ proc[q].op \in Appends /\ proc[q].chat = c

\* The operation goes on to its next store call with locals l
Goto(p, l) ==
    /\ proc' = [proc EXCEPT ![p] = l]
    /\ ret' = NoRet
    /\ appendHist' = IF proc[p].pc = "ready" /\ l.op \in Appends /\ Running(p, l.chat)
                     THEN [appendHist EXCEPT ![l.chat].raced = TRUE]
                     ELSE appendHist

\* A PostMessage that runs the completion whether or not its append succeeded
AfterReturnAlways(c, r) ==
    IF c.post /\ c.op = "AppendMessage"
    THEN [Idle EXCEPT !.pc = "P_run", !.op = "RunCompletion", !.user = c.user,
                      !.chat = c.chat, !.had = c.had, !.post = TRUE,
                      !.userMessage = IF "message" \in DOMAIN r THEN r.message ELSE NoMessage]
    ELSE Idle

\* Where a request goes when the call c returns r: PostMessage, its AppendMessage
\* having returned no error, goes on to RunCompletion (handler.go:220-226); every
\* other return ends the request
AfterReturn(c, r) ==
    IF c.post /\ c.op = "AppendMessage" /\ "message" \in DOMAIN r
    THEN [Idle EXCEPT !.pc = "P_run", !.op = "RunCompletion", !.user = c.user,
                      !.chat = c.chat, !.had = c.had, !.post = TRUE,
                      !.userMessage = r.message]
    ELSE Idle

\* The operation of call c returns r (the rest are zero values)
Return(p, c, r) ==
    /\ proc' = [proc EXCEPT ![p] = AfterReturn(c, r)]
    /\ ret' = r @@ [pc |-> "done"] @@
              [Idle EXCEPT !.op = c.op, !.user = c.user, !.chat = c.chat,
                           !.skipped = c.skipped, !.reply = c.reply,
                           !.wrote = c.wrote, !.had = c.had,
                           !.post = c.post, !.userMessage = c.userMessage,
                           !.values = c.values, !.query = c.query]
    /\ appendHist' = IF c.op \in Appends /\ "err" \in DOMAIN r /\ c.chat \in DOMAIN appendHist
                     THEN [appendHist EXCEPT ![c.chat].failed = @ \/ r.err # ""]
                     ELSE IF c.op \in Appends /\ "message" \in DOMAIN r
                     THEN [appendHist EXCEPT ![c.chat].returned = Append(@, r.message)]
                     ELSE appendHist

\* ---------------------------------------------------------- Redis commands
Put(f, k, v) == [x \in DOMAIN f \cup {k} |-> IF x = k THEN v ELSE f[x]]

\* An LREM that removes nothing
LRemNothing(list, v) == list

\* An LREM that empties the list
LRemAll(list, v) == <<>>

\* LREM key 0 value: every occurrence goes
RECURSIVE LRem(_, _)
LRem(list, v) ==
    IF list = <<>> THEN <<>>
    ELSE IF Head(list) = v THEN LRem(Tail(list), v)
    ELSE <<Head(list)>> \o LRem(Tail(list), v)

\* A push that lands at the wrong end
LPushAtTail(list, v) == Append(list, v)

LPush(list, v) == <<v>> \o list

\* A push that lands at the wrong end
RPushAtHead(list, v) == <<v>> \o list

\* A push on a list capped at one element: the oldest goes
RPushCapped(list, v) == IF list = <<>> THEN <<v>> ELSE Append(Tail(list), v)

\* A write that replaces the list by the new element
RPushReplaces(list, v) == <<v>>

RPush(list, v) == Append(list, v)

\* An LRANGE with no upper end
LRangeAll(list, stop) == list

\* LRANGE key 0 stop, stop >= 0
LRange(list, stop) == SubSeq(list, 1, IF Len(list) < stop + 1 THEN Len(list) ELSE stop + 1)

\* what json.Marshal then json.Unmarshal make of a value
StoredSummary(s) == [s EXCEPT !.title = JsonString(@)]
StoredMessage(m) == [m EXCEPT !.content = JsonString(@)]

\* A saveChatMeta that forgets the ownership Set
SaveChatMetaNoOwner(userEmail, summary) ==
    /\ chatmeta' = Put(chatmeta, summary.id, [summary EXCEPT !.title = JsonString(@)])
    /\ userchats' = [userchats EXCEPT ![userEmail] = <<summary.id>> \o LRem(@, summary.id)]
    /\ UNCHANGED chatowner

\* A saveChatMeta that leaves the index alone
SaveChatMetaNoIndex(userEmail, summary) ==
    /\ chatmeta' = Put(chatmeta, summary.id, [summary EXCEPT !.title = JsonString(@)])
    /\ chatowner' = Put(chatowner, summary.id, userEmail)
    /\ UNCHANGED userchats

\* saveChatMeta (chat.go:207-219): the TxPipeline, applied by EXEC in one step
SaveChatMeta(userEmail, summary) ==
    /\ chatmeta' = Put(chatmeta, summary.id, StoredSummary(summary))
    /\ chatowner' = Put(chatowner, summary.id, userEmail)
    /\ userchats' = [userchats EXCEPT ![userEmail] = LPush(LRem(@, summary.id), summary.id)]

\* A plain Pipeline in place of the TxPipeline: the first Set lands, then the error
SaveChatMetaPartial(userEmail, summary) ==
    /\ chatmeta' = Put(chatmeta, summary.id, [summary EXCEPT !.title = JsonString(@)])
    /\ UNCHANGED <<chatowner, userchats>>

\* saveChatMeta when EXEC returns an error: MULTI/EXEC applied nothing
SaveChatMetaFails(userEmail, summary) ==
    UNCHANGED <<chatmeta, chatowner, userchats>>

Fold(u) == IF u = "Ann" THEN "ann" ELSE u

\* An ownership check that ignores case (strings.EqualFold for ==)
verifyOwnerFold(userEmail, chatID) ==
    /\ chatID \in DOMAIN chatowner
    /\ Fold(chatowner[chatID]) = Fold(userEmail)

\* An ownership check that passes every chat that has an owner
verifyOwnerExists(userEmail, chatID) == chatID \in DOMAIN chatowner

\* An ownership check that takes a missing record for consent
verifyOwnerMissingOk(userEmail, chatID) ==
    IF chatID \in DOMAIN chatowner THEN chatowner[chatID] = userEmail ELSE TRUE

\* An ownership check that only looks whether the chat has a summary
verifyOwnerAny(userEmail, chatID) == chatID \in DOMAIN chatmeta

\* verifyOwner (chat.go:221-230), the Get having returned
verifyOwner(userEmail, chatID) ==
    /\ chatID \in DOMAIN chatowner
    /\ chatowner[chatID] = userEmail

\* The chats a user owns
Owned(u) == {c \in DOMAIN chatowner : chatowner[c] = u}

\* ---------------------------------------------------------------- actions
EmptyStore ==
    /\ chatmeta = <<>>
    /\ chatowner = <<>>
    /\ chatmessages = [c \in ChatIds |-> <<>>]
    /\ userchats = [u \in Users |-> <<>>]
    /\ now = 0
    /\ issued = 0
    /\ calls = 0
    /\ proc = [p \in Procs |-> Idle]
    /\ ret = NoRet
    /\ appended = [c \in ChatIds |-> <<>>]
    /\ titleHist = [c \in ChatIds |-> [born |-> <<>>, first |-> <<>>]]
    /\ appendHist = [c \in ChatIds |-> [failed |-> FALSE, raced |-> FALSE, returned |-> <<>>]]

\* The service on an empty store; the session carries no model
InitStore ==
    /\ EmptyStore
    /\ session = Login(<<>>)

\* Two concurrent requests
Init ==
    /\ InitStore
    /\ cfg = [procs |-> Procs, calls |-> MaxCalls,
              contents |-> {Blank, Hi, Yo}, titles |-> {<<>>, Work}, flaky |-> ChatIds,
              roles |-> ArgRoles, replies |-> ReplyRoles]

\* A request enters operation op: fresh locals; had counts the caller's chats then.
Call(op, userEmail, chatID) ==
    [Idle EXCEPT !.op = op, !.user = userEmail, !.chat = chatID,
                 !.had = Cardinality(Owned(userEmail))]

\* A generator that hands out the identifier it handed out last
NewStringReused == IF issued = 0 THEN issued + 1 ELSE issued

\* uuid.NewString() (chat.go:55): an identifier never handed out before
NewString == issued + 1

\* NewChat's body (chat.go:55-67): the uuid, the title default, the clock, saveChatMeta
CreateChat(p, call, title) ==
    /\ issued < MaxChats
    /\ issued' = issued + 1
    /\ LET summary == [id |-> NewString,
                       title |-> IF TrimSpace(title) = <<>> THEN NewChatTitle ELSE title,
                       updatedAt |-> now]
       IN  /\ \/ /\ SaveChatMeta(call.user, summary)
                 /\ Return(p, [call EXCEPT !.chat = summary.id, !.wrote = 1],
                           [summary |-> summary])
              \/ /\ SaveChatMetaFails(call.user, summary)
                 /\ Return(p, call, [err |-> ErrStore])
           /\ titleHist' = IF chatmeta' # chatmeta
                           THEN [titleHist EXCEPT
                                   ![summary.id].born = chatmeta'[summary.id].title]
                           ELSE titleHist
    /\ UNCHANGED <<chatmessages, now, cfg, session, appended>>

\* NewChat (chat.go:54-68)
NewChat(p, userEmail, title) ==
    /\ Ready(p)
    /\ calls' = calls + 1
    /\ CreateChat(p, Call("NewChat", userEmail, 0), title)

\* ListChats (chat.go:71-77), also as EnsureChat's first call (chat.go:44-47): the LRange
ListRange(p, op, userEmail) ==
    /\ Ready(p)
    /\ calls' = calls + 1
    /\ LET call == Call(op, userEmail, 0)
           ids == LRange(userchats[userEmail], ListLast)
       IN  \/ /\ ids # <<>>
              /\ Goto(p, [call EXCEPT !.pc = "L_get", !.ids = ids])
           \/ /\ ids = <<>>
              /\ IF op = "EnsureChat" THEN Goto(p, [call EXCEPT !.pc = "E_new"])
                 ELSE Return(p, call, <<>>)
           \/ Return(p, call, [err |-> ErrStore])
    /\ UNCHANGED <<store, now, issued, cfg, session, appended, titleHist>>

\* ListChats' loop body (chat.go:79-89): one Get; any error skips the id.
\* After the last id ListChats returns, and EnsureChat goes on (chat.go:48-51).
ListGet(p) ==
    /\ proc[p].pc = "L_get"
    /\ LET id == proc[p].ids[proc[p].at]
           last == proc[p].at = Len(proc[p].ids)
       IN  \E got \in (IF id \notin DOMAIN chatmeta THEN {FALSE}
                       ELSE IF id \in cfg.flaky THEN {TRUE, FALSE} ELSE {TRUE}) :
             LET summaries == IF got THEN Append(proc[p].summaries, chatmeta[id])
                              ELSE proc[p].summaries
                 me == [proc[p] EXCEPT !.skipped = IF got THEN @ ELSE @ \cup {id}]
             IN  IF ~last
                 THEN Goto(p, [me EXCEPT !.at = @ + 1, !.summaries = summaries])
                 ELSE IF proc[p].op = "ListChats"
                 THEN Return(p, me, [summaries |-> summaries, ids |-> proc[p].ids])
                 ELSE IF summaries # <<>>
                 THEN Return(p, [me EXCEPT !.chat = summaries[1].id],
                             [summary |-> summaries[1], ids |-> proc[p].ids])
                 ELSE Goto(p, [me EXCEPT !.pc = "E_new", !.ids = <<>>, !.at = 1])
    /\ UNCHANGED <<store, now, issued, calls, cfg, session, appended, titleHist>>

\* EnsureChat's NewChat(ctx, userEmail, "New chat") (chat.go:51)
EnsureNew(p) ==
    /\ proc[p].pc = "E_new"
    /\ UNCHANGED calls
    /\ CreateChat(p, proc[p], NewChatTitle)

\* The ownership check that opens GetChat, AppendMessage and RunCompletion
\* (chat.go:94-98, 116-125, 140-144); AppendMessage builds its Message on passing.
Verify(p, op, userEmail, chatID, role, content) ==
    /\ Ready(p)
    /\ calls' = calls + 1
    /\ LET call == Call(op, userEmail, chatID)
       IN  \/ /\ ~verifyOwner(userEmail, chatID)
              /\ Return(p, call, [err |-> ErrUnauthorized])
           \/ /\ verifyOwner(userEmail, chatID)
              /\ Goto(p, IF op = "GetChat" THEN [call EXCEPT !.pc = "G_meta"]
                         ELSE IF op = "RunCompletion" THEN [call EXCEPT !.pc = "R_fetch"]
                         ELSE [call EXCEPT !.pc = "push", !.content = content,
                                 !.message = [role |-> role, content |-> content,
                                              createdAt |-> now]])
           \/ Return(p, call, [err |-> ErrStore])
    /\ UNCHANGED <<store, now, issued, cfg, session, appended, titleHist>>

\* GetChat's Get of the summary (chat.go:100-107)
GetMeta(p) ==
    /\ proc[p].pc = "G_meta"
    /\ \/ /\ proc[p].chat \in DOMAIN chatmeta
          /\ Goto(p, [proc[p] EXCEPT !.pc = "G_msgs", !.summary = chatmeta[proc[p].chat]])
       \/ Return(p, proc[p], [err |-> ErrStore])
    /\ UNCHANGED <<store, now, issued, calls, cfg, session, appended, titleHist>>

\* fetchMessages (chat.go:175-189): LRange 0 -1; each value decodes
fetchMessages(chatID) == chatmessages[chatID]

\* GetChat's fetchMessages (chat.go:108-112)
GetMessages(p) ==
    /\ proc[p].pc = "G_msgs"
    /\ \/ Return(p, proc[p], [summary |-> proc[p].summary,
                              messages |-> fetchMessages(proc[p].chat)])
       \/ Return(p, proc[p], [err |-> ErrStore])
    /\ UNCHANGED <<store, now, issued, calls, cfg, session, appended, titleHist>>

\* RunCompletion's fetchMessages (chat.go:145-152)
RunFetch(p) ==
    /\ proc[p].pc = "R_fetch"
    /\ \/ Goto(p, [proc[p] EXCEPT !.pc = "R_ai", !.messages = fetchMessages(proc[p].chat)])
       \/ Return(p, proc[p], [err |-> ErrStore])
    /\ UNCHANGED <<store, now, issued, calls, cfg, session, appended, titleHist>>

\* A failure path that takes the last message of the log back
CompletionFailsRollback(p) ==
    /\ Return(p, proc[p], [err |-> ErrBackend])
    /\ chatmessages' = [chatmessages EXCEPT ![proc[p].chat] = SubSeq(@, 1, Len(@) - 1)]
    /\ UNCHANGED <<chatmeta, chatowner, userchats, appended>>

\* AI.ChatCompletion fails (chat.go:153-156; the client: transport error, status
\* outside 200..299, undecodable body, zero choices): RunCompletion returns the error
CompletionFails(p) ==
    /\ Return(p, proc[p], [err |-> ErrBackend])
    /\ UNCHANGED <<store, appended>>

\* A Message that keeps the reply's content under the prompt's role
replyMessageAsUser(response) ==
    [role |-> "user", content |-> response.content, createdAt |-> now]

\* stored := Message{Role: response.Role, Content: response.Content, ...}  (chat.go:157-161)
replyMessage(response) ==
    [role |-> response.role, content |-> response.content, createdAt |-> now]

\* AI.ChatCompletion (chat.go:153-161): the reply becomes the Message to store
RunAI(p) ==
    /\ proc[p].pc = "R_ai"
    /\ \/ \E role \in cfg.replies, content \in cfg.contents, usage \in Usages :
            LET response == [role |-> role, content |-> content, usage |-> usage]
            IN  /\ Goto(p, [proc[p] EXCEPT !.pc = "push", !.messages = <<>>,
                              !.reply = response,
                              !.content = response.content,
                              !.message = replyMessage(response)])
                /\ UNCHANGED <<store, appended>>
       \/ CompletionFails(p)
    /\ UNCHANGED <<now, issued, calls, cfg, session, titleHist>>

\* The RPush of AppendMessage and of RunCompletion (chat.go:126-132, 162-168)
PushMessage(p) ==
    /\ proc[p].pc = "push"
    /\ \/ /\ chatmessages' = [chatmessages EXCEPT
                                ![proc[p].chat] = RPush(@, StoredMessage(proc[p].message))]
          /\ appended' = [appended EXCEPT ![proc[p].chat] = Append(@, proc[p].message)]
          /\ Goto(p, [proc[p] EXCEPT !.pc = "T_get", !.wrote = @ + 1])
       \/ /\ Return(p, proc[p], [err |-> ErrStore])
          /\ UNCHANGED <<chatmessages, appended>>
    /\ UNCHANGED <<chatmeta, chatowner, userchats, now, issued, calls, cfg, session, titleHist>>

\* A touch that derives the title from every content not blank
touchedAlways(summary, lastContent) ==
    [summary EXCEPT
        !.title = IF TrimSpace(lastContent) # <<>> THEN summarizeTitle(lastContent) ELSE @,
        !.updatedAt = now]

\* A touch that leaves updatedAt as it read it
touchedStale(summary, lastContent) ==
    [summary EXCEPT
        !.title = IF summary.title = NewChatTitle /\ TrimSpace(lastContent) # <<>>
                  THEN summarizeTitle(lastContent) ELSE @]

\* touchChat's update of the summary it read (chat.go:200-203)
touched(summary, lastContent) ==
    [summary EXCEPT
        !.title = IF summary.title = NewChatTitle /\ TrimSpace(lastContent) # <<>>
                  THEN summarizeTitle(lastContent) ELSE @,
        !.updatedAt = now]

\* touchChat, up to saveChatMeta (chat.go:192-203)
TouchGet(p) ==
    /\ proc[p].pc = "T_get"
    /\ \/ /\ proc[p].chat \in DOMAIN chatmeta
          /\ Goto(p, [proc[p] EXCEPT !.pc = "T_exec",
                        !.meta = chatmeta[proc[p].chat],
                        !.summary = touched(chatmeta[proc[p].chat], proc[p].content)])
       \/ Return(p, proc[p], [err |-> ErrStore])
    /\ UNCHANGED <<store, now, issued, calls, cfg, session, appended, titleHist>>

\* touchChat's saveChatMeta (chat.go:204), then the operation returns its Message
TouchSave(p) ==
    /\ proc[p].pc = "T_exec"
    /\ \/ /\ SaveChatMeta(proc[p].user, proc[p].summary)
          /\ Return(p, [proc[p] EXCEPT !.wrote = @ + 1],
                    [message |-> proc[p].message, usage |-> proc[p].reply.usage])
          /\ titleHist' = IF titleHist[proc[p].chat].first = <<>>
                          THEN [titleHist EXCEPT ![proc[p].chat].first = TrimSpace(proc[p].content)]
                          ELSE titleHist
       \/ /\ SaveChatMetaFails(proc[p].user, proc[p].summary)
          /\ Return(p, proc[p], [err |-> ErrStore])
          /\ UNCHANGED titleHist
    /\ UNCHANGED <<chatmessages, now, issued, calls, cfg, session, appended>>

\* time passes
Tick ==
    /\ now < MaxTime
    /\ now' = now + 1
    /\ ret' = NoRet
    /\ UNCHANGED <<store, issued, calls, proc, cfg, session, appended, titleHist, appendHist>>

Next ==
    \/ \E p \in Procs, u \in Users, t \in cfg.titles : NewChat(p, u, t)
    \/ \E p \in Procs, u \in Users : ListRange(p, "ListChats", u)
    \/ \E p \in Procs, u \in Users : ListRange(p, "EnsureChat", u)
    \/ \E p \in Procs : ListGet(p)
    \/ \E p \in Procs : EnsureNew(p)
    \/ \E p \in Procs, u \in Users, c \in ChatIds : Verify(p, "GetChat", u, c, "", <<>>)
    \/ \E p \in Procs, u \in Users, c \in ChatIds : Verify(p, "RunCompletion", u, c, "", <<>>)
    \/ \E p \in Procs, u \in Users, c \in ChatIds, r \in cfg.roles, t \in cfg.contents :
          Verify(p, "AppendMessage", u, c, r, t)
    \/ \E p \in Procs : GetMeta(p)
    \/ \E p \in Procs : GetMessages(p)
    \/ \E p \in Procs : RunFetch(p)
    \/ \E p \in Procs : RunAI(p)
    \/ \E p \in Procs : PushMessage(p)
    \/ \E p \in Procs : TouchGet(p)
    \/ \E p \in Procs : TouchSave(p)
    \/ Tick

Spec == Init /\ [][Next]_vars

\* One request at a time, with contents that exercise the title cut
InitTitles ==
    /\ InitStore
    /\ cfg = [procs |-> {"p1"}, calls |-> MaxCalls,
              contents |-> {Blank, PaddedSentinel, Hi, LongAscii, LongAccents},
              titles |-> {<<>>, Blank}, flaky |-> ChatIds,
              roles |-> ArgRoles, replies |-> ReplyRoles]

SpecTitles == InitTitles /\ [][Next]_vars

\* One request at a time, more of them
InitSeq ==
    /\ InitStore
    /\ cfg = [procs |-> {"p1"}, calls |-> MaxCallsSeq,
              contents |-> {Hi, Yo}, titles |-> {<<>>}, flaky |-> ChatIds,
              roles |-> ArgRoles, replies |-> ReplyRoles]

SpecSeq == InitSeq /\ [][Next]_vars

\* One request at a time; callers and the backend use roles of their own choosing
InitRoles ==
    /\ InitStore
    /\ cfg = [procs |-> {"p1"}, calls |-> MaxCalls,
              contents |-> {Hi}, titles |-> {<<>>}, flaky |-> ChatIds,
              roles |-> {"user", "assistant", "system", ""},
              replies |-> {"assistant", "tool", ""}]

SpecRoles == InitRoles /\ [][Next]_vars

\* The newest-first index NewChat leaves after creating chats 1..n
NewestFirst(n) == [i \in 1..n |-> n + 1 - i]

\* "ann" has created up to MaxListed chats; some summaries may fail to be read
InitList ==
    \E n \in 0..MaxListed :
        LET ids == 1..(IF n < MaxChats THEN MaxChats ELSE n)
        IN  /\ chatmeta = [c \in 1..n |-> [id |-> c, title |-> NewChatTitle, updatedAt |-> 0]]
            /\ chatowner = [c \in 1..n |-> "ann"]
            /\ chatmessages = [c \in ids |-> <<>>]
            /\ userchats = [u \in Users |-> IF u = "ann" THEN NewestFirst(n) ELSE <<>>]
            /\ now = 0
            /\ issued = n
            /\ calls = 0
            /\ proc = [p \in Procs |-> Idle]
            /\ ret = NoRet
            /\ appended = [c \in ids |-> <<>>]
            /\ titleHist = [c \in ids |->
                               [born |-> IF c <= n THEN NewChatTitle ELSE <<>>, first |-> <<>>]]
            /\ appendHist = [c \in ids |-> [failed |-> FALSE, raced |-> FALSE, returned |-> <<>>]]
            /\ session = Login(<<>>)
            /\ \E flaky \in SUBSET ({1, 2, n} \cap (1..n)) :
                  cfg = [procs |-> {"p1"}, calls |-> MaxCalls, contents |-> {Hi},
                         titles |-> {<<>>}, flaky |-> flaky,
                         roles |-> ArgRoles, replies |-> ReplyRoles]

\* Listings only
NextList ==
    \/ \E p \in Procs, u \in Users : ListRange(p, "ListChats", u)
    \/ \E p \in Procs : ListGet(p)

SpecList == InitList /\ [][NextList]_vars

\* Two concurrent requests on a store that never fails to return a summary
InitEnsure ==
    /\ InitStore
    /\ cfg = [procs |-> Procs, calls |-> MaxCalls,
              contents |-> {Hi}, titles |-> {<<>>}, flaky |-> {},
              roles |-> ArgRoles, replies |-> ReplyRoles]

\* EnsureChat only, as ShowChat calls it for a session with no current chat
NextEnsure ==
    \/ \E p \in Procs, u \in Users : ListRange(p, "EnsureChat", u)
    \/ \E p \in Procs : ListGet(p)
    \/ \E p \in Procs : EnsureNew(p)

SpecEnsure == InitEnsure /\ [][NextEnsure]_vars

\* ---------------------------------------------------------------- PostMessage
ErrMissing == "missing message"         \* handler.go:211
ErrEmpty == "empty message"             \* handler.go:217

\* The content field of a request: "", "  ", "hi", " hi "
PostForms == {<<>>, Blank, Hi, <<32, 104, 105, 32>>}

\* The JSON body of a request, as ShouldBindJSON reads it: none that binds, or
\* content "", "  " or "yo"
PostPayloads ==
    {[ok |-> FALSE, content |-> <<>>]} \cup [ok : {TRUE}, content : {<<>>, Blank, Yo}]

\* PostMessage (handler.go:198-226), up to the ownership check of its AppendMessage
PostMessage(p, userEmail, chatID, form, payload) ==
    /\ Ready(p)
    /\ calls' = calls + 1
    /\ LET content == IF TrimSpace(form) # <<>> THEN TrimSpace(form)
                      ELSE TrimSpace(payload.content)
           request == [Call("PostMessage", userEmail, chatID) EXCEPT !.post = TRUE]
           call == [request EXCEPT !.op = "AppendMessage"]
       IN  IF TrimSpace(form) = <<>> /\ ~payload.ok
           THEN Return(p, request, [err |-> ErrMissing, content |-> content])
           ELSE IF content = <<>>
           THEN Return(p, request, [err |-> ErrEmpty, content |-> content])
           ELSE \/ /\ ~verifyOwner(userEmail, chatID)
                   /\ Return(p, call, [err |-> ErrUnauthorized])
                \/ /\ verifyOwner(userEmail, chatID)
                   /\ Goto(p, [call EXCEPT !.pc = "push", !.content = content,
                                  !.message = [role |-> "user", content |-> content,
                                               createdAt |-> now]])
                \/ Return(p, call, [err |-> ErrStore])
    /\ UNCHANGED <<store, now, issued, cfg, session, appended, titleHist>>

\* PostMessage's RunCompletion (handler.go:225-226), up to its ownership check
\* (chat.go:140-144); the model and temperature of the session go with it
PostRun(p) ==
    /\ proc[p].pc = "P_run"
    /\ \/ /\ ~verifyOwner(proc[p].user, proc[p].chat)
          /\ Return(p, proc[p], [err |-> ErrUnauthorized])
       \/ /\ verifyOwner(proc[p].user, proc[p].chat)
          /\ Goto(p, [proc[p] EXCEPT !.pc = "R_fetch"])
       \/ Return(p, proc[p], [err |-> ErrStore])
    /\ UNCHANGED <<store, now, issued, calls, cfg, session, appended, titleHist>>

\* What PostMessage answers when the call that ended it returned r (handler.go:209-239)
PostResponse(r) ==
    IF r.op = "PostMessage" THEN r.err
    ELSE IF r.op = "AppendMessage" /\ r.err # "" THEN "failed to save message"
    ELSE IF r.op = "RunCompletion" /\ r.err # "" THEN "openai error"
    ELSE "ok"

\* Two concurrent requests that post messages
InitPost ==
    /\ InitStore
    /\ cfg = [procs |-> Procs, calls |-> MaxCalls,
              contents |-> {Yo}, titles |-> {<<>>}, flaky |-> {},
              roles |-> ArgRoles, replies |-> ReplyRoles]

NextPost ==
    \/ \E p \in Procs, u \in Users, t \in cfg.titles : NewChat(p, u, t)
    \/ \E p \in Procs, u \in Users, c \in ChatIds, form \in PostForms,
          payload \in PostPayloads : PostMessage(p, u, c, form, payload)
    \/ \E p \in Procs : PostRun(p)
    \/ \E p \in Procs : RunFetch(p)
    \/ \E p \in Procs : RunAI(p)
    \/ \E p \in Procs : PushMessage(p)
    \/ \E p \in Procs : TouchGet(p)
    \/ \E p \in Procs : TouchSave(p)

SpecPost == InitPost /\ [][NextPost]_vars

\* -------------------------------------------------------------- preferences
\* A resolver that answers with the first allowed model whatever the request
ensureModelFirst(model) ==
    IF Len(cfg.models) > 0 THEN cfg.models[1] ELSE model

\* ensureModel (handler.go:372-388), on h.Config.OpenAI.Models
ensureModel(model) ==
    IF model = <<>>
    THEN IF Len(cfg.models) > 0 THEN cfg.models[1] ELSE <<>>
    ELSE IF \E i \in 1..Len(cfg.models) : cfg.models[i] = model THEN model
    ELSE IF Len(cfg.models) > 0 THEN cfg.models[1]
    ELSE model

\* OPENAI_API_MODELS: unset, "a", "a,b", "b, a", " a ,,b", "a,a", ","
ModelsEnvs ==
    {<<>>, <<97>>, <<97, 44, 98>>, <<98, 44, 32, 97>>, <<32, 97, 32, 44, 44, 98>>,
     <<97, 44, 97>>, <<44>>}

\* The model field of a request: "", "a", "b", " b ", "z"
FormModels == {<<>>, <<97>>, <<98>>, <<32, 98, 32>>, <<122>>}

\* The temperature field of a request: "", "abc", "0.7", " 0.7 ", "0.1", "1.0", "0.09",
\* "1.01", "-5", "5", "Inf", "-inf", "NaN"
FormTemperatures ==
    {<<>>, <<97, 98, 99>>, <<48, 46, 55>>, <<32, 48, 46, 55, 32>>, <<48, 46, 49>>,
     <<49, 46, 48>>, <<48, 46, 48, 57>>, <<49, 46, 48, 49>>, <<45, 53>>, <<53>>,
     <<73, 110, 102>>, <<45, 105, 110, 102>>, <<78, 97, 78>>}

\* The JSON body of a request, as ShouldBindJSON reads it: none that binds, or
\* model "" or "b" with temperature "0.09" or "NaN"
Payloads ==
    {[ok |-> FALSE, model |-> <<>>, temperature |-> <<>>]} \cup
    [ok : {TRUE}, model : {<<>>, <<98>>}, temperature : {<<48, 46, 48, 57>>, <<78, 97, 78>>}]

ErrSession == "session save failed"     \* handler.go:264,272

\* UpdatePreferences (handler.go:242-280)
UpdatePreferences(p, form, payload) ==
    /\ Ready(p)
    /\ calls' = calls + 1
    /\ LET bound == TrimSpace(form.model) = <<>> /\ payload.ok
           model == IF bound THEN TrimSpace(payload.model) ELSE TrimSpace(form.model)
           tempValue == IF bound THEN TrimSpace(payload.temperature)
                        ELSE TrimSpace(form.temperature)
           parsed == ParseFloat(tempValue)
           temperature == clampTemperature(IF parsed.err THEN Half ELSE parsed.value)
           resolved == ensureModel(model)
           call == Call("UpdatePreferences", "", 0)
       IN  \/ /\ session' = [session EXCEPT
                                !.model = IF resolved # <<>> THEN resolved ELSE @,
                                !.temperature = temperature]
              /\ Return(p, [call EXCEPT !.wrote = 1],
                        [request |-> model, tempValue |-> tempValue,
                         model |-> resolved, temperature |-> temperature])
           \/ /\ UNCHANGED session
              /\ Return(p, call, [err |-> ErrSession])
    /\ UNCHANGED <<store, now, issued, cfg, appended, titleHist>>

\* sessionPreferences (handler.go:320-338), as ShowChat and PostMessage call it
SessionPreferences(p) ==
    /\ Ready(p)
    /\ calls' = calls + 1
    /\ Return(p, Call("sessionPreferences", "", 0),
              [model |-> ensureModel(session.model),
               temperature |-> IF session.temperature = NoFloat THEN Half
                               ELSE clampTemperature(session.temperature)])
    /\ UNCHANGED <<store, now, issued, cfg, session, appended, titleHist>>

\* A logged-in session of a server started with one of the allow-lists
InitPrefs ==
    /\ EmptyStore
    /\ \E env \in ModelsEnvs :
          /\ cfg = [procs |-> {"p1"}, calls |-> MaxCalls, contents |-> {Hi},
                    titles |-> {<<>>}, flaky |-> ChatIds, roles |-> ArgRoles,
                    replies |-> ReplyRoles, models |-> splitCSV(env)]
          /\ session = Login(splitCSV(env))

NextPrefs ==
    \/ \E p \in Procs, m \in FormModels, t \in FormTemperatures, payload \in Payloads :
          UpdatePreferences(p, [model |-> m, temperature |-> t], payload)
    \/ \E p \in Procs : SessionPreferences(p)

SpecPrefs == InitPrefs /\ [][NextPrefs]_vars

\* ------------------------------------------------------------------ login
\* The providers the routes name, the values randomState() draws from, and what a
\* callback may carry as state and code
Providers == {"google", "github"}
OAuthStates == {"s1", "s2"}
QueryStates == {""} \cup OAuthStates
QueryCodes == {"", "c1"}

ErrOAuthConfig == "oauth config failed"             \* handler.go:95
ErrOAuthMissing == "missing oauth state or code"    \* handler.go:112
ErrOAuthState == "invalid oauth state"              \* handler.go:118
ErrExchange == "oauth exchange failed"              \* handler.go:123
ErrFetchEmail == "failed to fetch email"            \* handler.go:128
ErrLogin == "login required"                        \* the redirect to /login

\* StartOAuth (handler.go:79-100): the state and the provider are saved before
\* AuthURL is asked for the redirect
StartOAuth(p, provider) ==
    /\ Ready(p)
    /\ calls' = calls + 1
    /\ LET call == [Idle EXCEPT !.op = "StartOAuth", !.user = session.userEmail,
                        !.values = session, !.query.provider = provider]
       IN  \/ /\ UNCHANGED session
              /\ Return(p, call, [err |-> ErrSession])
           \/ \E state \in OAuthStates :
                 /\ session' = [session EXCEPT !.oauthState = state,
                                               !.oauthProvider = provider]
                 /\ \/ Return(p, [call EXCEPT !.wrote = 1, !.query.state = state],
                               [err |-> ErrOAuthConfig])
                    \/ Return(p, [call EXCEPT !.wrote = 1, !.query.state = state],
                               [url |-> state])
    /\ UNCHANGED <<store, now, issued, cfg, appended, titleHist>>

\* HandleOAuthCallback up to the exchange (handler.go:102-121): the session is
\* decoded from the request's cookie, and the checks are made on what was decoded
HandleOAuthCallback(p, provider, state, code) ==
    /\ Ready(p)
    /\ calls' = calls + 1
    /\ LET call == [Idle EXCEPT !.op = "HandleOAuthCallback", !.user = session.userEmail,
                        !.values = session,
                        !.query = [state |-> state, code |-> code, provider |-> provider]]
       IN  IF state = "" \/ code = ""
           THEN Return(p, call, [err |-> ErrOAuthMissing])
           ELSE IF ~stateMatches(session, state, provider)
           THEN Return(p, call, [err |-> ErrOAuthState])
           ELSE Goto(p, [call EXCEPT !.pc = "O_exchange"])
    /\ UNCHANGED <<store, now, issued, cfg, session, appended, titleHist>>

\* HandleOAuthCallback from the exchange on (handler.go:121-145): Exchange and
\* FetchEmail ask the provider; the Save writes the Values the request decoded,
\* with the login in them, as the session's cookie
OAuthExchange(p) ==
    /\ proc[p].pc = "O_exchange"
    /\ \/ /\ UNCHANGED session
          /\ \E err \in {ErrExchange, ErrFetchEmail, ErrSession} :
                Return(p, proc[p], [err |-> err])
       \/ \E email \in Users :
             /\ session' = LoggedIn(proc[p].values, email, cfg.models)
             /\ Return(p, [proc[p] EXCEPT !.wrote = 1], [email |-> email])
    /\ UNCHANGED <<store, now, issued, calls, cfg, appended, titleHist>>

\* RequireAuth (handler.go:58-71), before any of the routes behind it
RequireAuth(p) ==
    /\ Ready(p)
    /\ calls' = calls + 1
    /\ LET call == [Idle EXCEPT !.op = "RequireAuth", !.user = session.userEmail, !.values = session]
       IN  IF session.userEmail = ""
           THEN Return(p, call, [err |-> ErrLogin])
           ELSE Return(p, call, [email |-> session.userEmail])
    /\ UNCHANGED <<store, now, issued, cfg, session, appended, titleHist>>

\* Logout (handler.go:148-155): the cookie is expired, unless the Save fails
Logout(p) ==
    /\ Ready(p)
    /\ calls' = calls + 1
    /\ LET call == [Idle EXCEPT !.op = "Logout", !.user = session.userEmail, !.values = session]
       IN  \/ /\ session' = NoValues
              /\ Return(p, [call EXCEPT !.wrote = 1], [url |-> "login"])
           \/ /\ UNCHANGED session
              /\ Return(p, call, [url |-> "login"])
    /\ UNCHANGED <<store, now, issued, cfg, appended, titleHist>>

\* A browser with no cookie yet, and a server with one model
InitAuth ==
    /\ EmptyStore
    /\ cfg = [procs |-> Procs, calls |-> MaxCallsAuth, contents |-> {Hi},
              titles |-> {<<>>}, flaky |-> {}, roles |-> ArgRoles,
              replies |-> ReplyRoles, models |-> <<<<97>>>>]
    /\ session = NoValues

NextAuth ==
    \/ \E p \in Procs, provider \in Providers : StartOAuth(p, provider)
    \/ \E p \in Procs, provider \in Providers, state \in QueryStates, code \in QueryCodes :
          HandleOAuthCallback(p, provider, state, code)
    \/ \E p \in Procs : OAuthExchange(p)
    \/ \E p \in Procs : RequireAuth(p)
    \/ \E p \in Procs : Logout(p)

SpecAuth == InitAuth /\ [][NextAuth]_vars

\* ------------------------------------------------------------- properties
Min(a, b) == IF a < b THEN a ELSE b

Without(list, v) == SelectSeq(list, LAMBDA x : x # v)

NoDuplicates(list) == \A i, j \in 1..Len(list) : list[i] = list[j] => i = j

IdsOf(summaries) == [i \in 1..Len(summaries) |-> summaries[i].id]

RECURSIVE IsSubseq(_, _)
IsSubseq(a, b) ==
    IF a = <<>> THEN TRUE
    ELSE IF b = <<>> THEN FALSE
    ELSE IF Head(a) = Head(b) THEN IsSubseq(Tail(a), Tail(b))
    ELSE IsSubseq(a, Tail(b))

AsStored(messages) == [i \in 1..Len(messages) |-> [messages[i] EXCEPT !.content = JsonString(@)]]

Returned(op) == ret.pc = "done" /\ ret.op = op

Succeeded(op) == Returned(op) /\ ret.err = ""

\* GetChat or AppendMessage has just returned to a caller who is not the chat's owner
ForeignAccess ==
    /\ Returned("GetChat") \/ Returned("AppendMessage")
    /\ ret.chat \in DOMAIN chatowner
    /\ chatowner[ret.chat] # ret.user

\* C1  Ownership isolation.  A GetChat or AppendMessage on a chat that another user
\* owns (users that differ in case only are other users) never succeeds: it returns
\* "not authorized" (or the error of the ownership read, when that read itself fails),
\* no summary, no messages and no Message; it has written nothing, and the step in
\* which it returns leaves the log, summary, owner and every index as they were.
C1_OwnershipIsolation ==
    [][ForeignAccess' =>
        /\ ret'.err \in {ErrUnauthorized, ErrStore}
        /\ ret'.summary = NoSummary
        /\ ret'.messages = <<>>
        /\ ret'.message = NoMessage
        /\ ret'.wrote = 0
        /\ UNCHANGED store]_vars

C1_Witness ==
    /\ ForeignAccess
    /\ ret.op = "AppendMessage"
    /\ ret.err = ErrUnauthorized
    /\ chatowner[ret.chat] = "ann" /\ ret.user = "Ann"

\* C2  Append order.  Every chat's log is the sequence of Messages whose RPush was
\* applied, in that order, each as the store's JSON reads it back; and the Messages
\* a successful GetChat returns are exactly that sequence.
C2_AppendOrder ==
    /\ \A c \in ChatIds : chatmessages[c] = AsStored(appended[c])
    /\ Succeeded("GetChat") => ret.messages = AsStored(appended[ret.chat])

C2_Witness ==
    /\ Succeeded("GetChat")
    /\ Len(ret.messages) = 2
    /\ ret.messages[1].content = Hi /\ ret.messages[1].role = "user"
    /\ ret.messages[2].content = Yo /\ ret.messages[2].role = "assistant"

\* The four effects of saveChatMeta for chat c of user u, nothing else
GroupedWrite(c, u) ==
    /\ c \in DOMAIN chatmeta'
    /\ chatmeta' = [x \in DOMAIN chatmeta \cup {c} |-> IF x = c THEN chatmeta'[c] ELSE chatmeta[x]]
    /\ chatowner' = [x \in DOMAIN chatowner \cup {c} |-> IF x = c THEN u ELSE chatowner[x]]
    /\ userchats' = [userchats EXCEPT ![u] = <<c>> \o Without(@, c)]

\* C3  Atomic grouped write.  Every step leaves summaries, owners and indexes all as
\* they were, or applies the whole group for one chat (summary set, owner set, id
\* removed from the owner's index and pushed at its front): no state shows a part of
\* it.  A step in which an operation returns an error changes none of the three.
C3_AtomicGroupedWrite ==
    [][/\ \/ UNCHANGED <<chatmeta, chatowner, userchats>>
          \/ \E c \in ChatIds, u \in Users : GroupedWrite(c, u)
       /\ (ret'.pc = "done" /\ ret'.err # "") => UNCHANGED <<chatmeta, chatowner, userchats>>]_vars

\* The batch of a touch has just failed, after the push of its message
C3_Witness ==
    /\ Returned("AppendMessage")
    /\ ret.err = ErrStore
    /\ ret.wrote = 1
    /\ chatmeta[ret.chat].title = NewChatTitle
    /\ chatmessages[ret.chat] # <<>>

\* C4  A chat id has a stored summary if and only if it has a stored owner.
C4_SummaryIffOwner == DOMAIN chatmeta = DOMAIN chatowner

C4_Witness ==
    /\ Succeeded("RunCompletion")
    /\ DOMAIN chatmeta = {1, 2}
    /\ DOMAIN chatowner = {1, 2}

\* C5  No user's index holds a chat id twice.
C5_IndexDuplicateFree == \A u \in Users : NoDuplicates(userchats[u])

\* A touch of a chat has been saved while another touch of the same chat is between
\* its read and its write
C5_Witness ==
    /\ Succeeded("AppendMessage")
    /\ \E p \in Procs : proc[p].pc = "T_exec" /\ proc[p].chat = ret.chat
    /\ Len(userchats[ret.user]) = 1

\* C6  Index recency.  The step in which NewChat, AppendMessage or RunCompletion
\* returns success leaves the chat first in its caller's index and the other ids in
\* the order they had.  ListChats reads the first ListLast + 1 ids of the index as it
\* stands, and returns summaries in the order of the ids it read.
C6_IndexRecency ==
    [][/\ (Succeeded("NewChat") \/ Succeeded("AppendMessage") \/ Succeeded("RunCompletion"))' =>
            /\ Head(userchats'[ret'.user]) = ret'.chat
            /\ Without(userchats'[ret'.user], ret'.chat) = Without(userchats[ret'.user], ret'.chat)
       /\ \A p \in Procs : (proc[p].pc = "ready" /\ proc'[p].pc = "L_get") =>
            proc'[p].ids = SubSeq(userchats[proc'[p].user], 1,
                                  Min(Len(userchats[proc'[p].user]), ListLast + 1))
       /\ Succeeded("ListChats")' => IsSubseq(IdsOf(ret'.summaries), ret'.ids)]_vars

\* A touch has moved the older of two chats to the front, and ListChats shows it
C6_Witness ==
    /\ Succeeded("ListChats")
    /\ userchats[ret.user] = <<1, 2>>
    /\ IdsOf(ret.summaries) = <<1, 2>>

\* C7  Title derivation is one-shot (one request at a time).  A chat created with the
\* default title keeps it until the first append that succeeds with a content not
\* blank; from then on its title is the first TitleMax characters of that content,
\* trimmed, whatever is appended later.
C7_TitleOneShot ==
    \A c \in DOMAIN chatmeta :
        titleHist[c].born = NewChatTitle =>
            chatmeta[c].title = IF titleHist[c].first = <<>> THEN NewChatTitle
                                ELSE FirstRunes(titleHist[c].first, TitleMax)

TitleChanged(c) == c \in DOMAIN chatmeta /\ chatmeta'[c].title # chatmeta[c].title

\* C8 as stated.  Under any interleaving a stored title changes at most once, from the
\* sentinel to a derived title: no step changes a title that is not the sentinel.
C8_TitleChangesOnce ==
    [][\A c \in ChatIds : TitleChanged(c) => chatmeta[c].title = NewChatTitle]_vars

\* C8 as amended.  A stored title changes only in the step in which a touch saves the
\* summary; if the summary that touch read is still the stored one (no other touch
\* wrote a different one in between), the change is from the sentinel to a derived
\* title.  Touches that do not overlap so change a title at most once and never again.
C8_TitleChangesOnceUnlessOverlap ==
    [][\A c \in ChatIds : TitleChanged(c) =>
          \E p \in Procs :
              /\ proc[p].pc = "T_exec" /\ proc'[p].pc = "ready"
              /\ proc[p].chat = c
              /\ proc[p].meta = chatmeta[c] => chatmeta[c].title = NewChatTitle]_vars

\* A second append has been saved and the title is still the one derived from the first
C8_Witness ==
    /\ Succeeded("AppendMessage")
    /\ ret.message.content = Yo
    /\ Len(chatmessages[ret.chat]) = 2
    /\ chatmessages[ret.chat][1].content = Hi
    /\ chatmeta[ret.chat].title = Hi

\* C9  EnsureChat (one request at a time).  Called by a user who owns a chat it creates
\* nothing and returns the summary of the chat at the front of that user's index;
\* called by a user who owns none it creates one chat, titled "New chat", and the
\* user then owns exactly one.
C9_EnsureChatIdempotent ==
    Returned("EnsureChat") =>
        IF ret.had > 0
        THEN /\ ret.wrote = 0
             /\ ret.err = "" => ret.summary = chatmeta[Head(userchats[ret.user])]
        ELSE ret.err = "" => /\ ret.wrote = 1
                             /\ ret.summary.title = NewChatTitle
                             /\ Owned(ret.user) = {ret.summary.id}

\* C10  Completion failure.  The step in which RunCompletion returns the backend's
\* error changes nothing in the store; the operation has written nothing since it
\* started and returns no Message.
C10_CompletionFailure ==
    [][(Returned("RunCompletion") /\ ret.err = ErrBackend)' =>
          /\ ret'.message = NoMessage
          /\ ret'.wrote = 0
          /\ UNCHANGED store]_vars

\* The backend failed on a chat whose log ends with the user's message
C10_Witness ==
    /\ Returned("RunCompletion")
    /\ ret.err = ErrBackend
    /\ Len(chatmessages[ret.chat]) = 1
    /\ chatmessages[ret.chat][1].role = "user"
    /\ appended[ret.chat] = <<chatmessages[ret.chat][1]>>

\* C11  RunCompletion success.  From its ownership check on, RunCompletion changes the
\* message log in one step only, which appends at the tail of its chat's log one
\* Message with the role and content of the backend's reply; its touch derives the
\* title from the reply's content (when the title it read is the sentinel and the
\* content is not blank); on success it has made two store writes (that push and the
\* save of the summary) and returns that same Message with the backend's usage.
C11_RunCompletionSuccess ==
    [][\A p \in Procs :
          (proc[p].op = "RunCompletion" /\ proc'[p] # proc[p]) =>
              LET c == proc[p].chat
                  reply == proc[p].reply
              IN  /\ IF proc[p].pc = "push" /\ proc'[p].pc = "T_get"
                     THEN /\ proc[p].message.role = reply.role
                          /\ proc[p].message.content = reply.content
                          /\ chatmessages' = [chatmessages EXCEPT
                                                ![c] = Append(@, proc[p].message)]
                     ELSE UNCHANGED chatmessages
                  /\ (proc[p].pc = "T_exec" /\ ret'.err = "") =>
                        /\ chatmeta'[c].title =
                              IF proc[p].meta.title = NewChatTitle /\ TrimSpace(reply.content) # <<>>
                              THEN JsonString(summarizeTitle(reply.content))
                              ELSE proc[p].meta.title
                        /\ ret'.pc = "done" /\ ret'.op = "RunCompletion"
                        /\ ret'.message = proc[p].message
                        /\ ret'.usage = reply.usage
                        /\ ret'.wrote = 2
                        /\ \E i \in 1..Len(chatmessages'[c]) : chatmessages'[c][i] = ret'.message]_vars

\* RunCompletion answered the user's message: the log is that message, then the reply
C11_Witness ==
    /\ Succeeded("RunCompletion")
    /\ ret.usage = 9
    /\ Len(chatmessages[ret.chat]) = 2
    /\ chatmessages[ret.chat][1].role = "user"
    /\ chatmessages[ret.chat][2] = ret.message
    /\ ret.message.role = "assistant"
    /\ ret.message.content = Yo

NotOwner(u, c) == c \notin DOMAIN chatowner \/ chatowner[c] # u

\* C12  RunCompletion authorizes first.  A RunCompletion that is past its ownership
\* check (about to read the log, call the backend, push or touch) runs for the owner of
\* its chat; one that returns to a caller who is not the owner (another owner, or no
\* ownership record) returns an error and zero values, has asked the backend nothing
\* and has written nothing.
C12_AuthorizeFirst ==
    /\ \A p \in Procs :
          (proc[p].op = "RunCompletion" /\ proc[p].pc # "ready") =>
              ~NotOwner(proc[p].user, proc[p].chat)
    /\ (Returned("RunCompletion") /\ NotOwner(ret.user, ret.chat)) =>
          /\ ret.err \in {ErrUnauthorized, ErrStore}
          /\ ret.reply = NoReply
          /\ ret.message = NoMessage
          /\ ret.usage = 0
          /\ ret.wrote = 0

\* "Ann" asked for a completion on ann's chat, which holds a message
C12_Witness ==
    /\ Returned("RunCompletion")
    /\ ret.err = ErrUnauthorized
    /\ ret.user = "Ann"
    /\ ret.chat \in DOMAIN chatowner
    /\ chatowner[ret.chat] = "ann"
    /\ chatmessages[ret.chat] # <<>>

\* What a caller gets back from a call that was turned away with error e
Denied(e) ==
    /\ ret.pc = "done" /\ ret.err = e
    /\ ret.summary = NoSummary /\ ret.messages = <<>>
    /\ ret.message = NoMessage /\ ret.usage = 0

\* Request p calls op(u, c, ...)
Attempt(p, op, u, c) ==
    IF op = "AppendMessage"
    THEN \E r \in cfg.roles, t \in cfg.contents : Verify(p, op, u, c, r, t)
    ELSE Verify(p, op, u, c, "", <<>>)

\* The call can pass the ownership check (o = "") or can be turned away with error o
Sees(p, op, u, c, o) ==
    ENABLED (/\ Attempt(p, op, u, c)
             /\ UNCHANGED store
             /\ IF o = "" THEN proc'[p].pc # "ready" ELSE Denied(o)')

\* The call can end otherwise than turned away with the store unchanged
SeesMore(p, op, u, c) ==
    ENABLED (/\ Attempt(p, op, u, c)
             /\ ~(UNCHANGED store /\ \E e \in {ErrUnauthorized, ErrStore} : Denied(e)'))

\* C13  Existence is not leaked.  For every caller u, every operation of GetChat,
\* AppendMessage, RunCompletion and any two chat ids that are not u's (owned by someone
\* else, whatever they hold, or not existing at all), the call has the same possible
\* outcomes on both: the same errors, never a pass, no data, no change of the store.
C13_ExistenceNotLeaked ==
    \A p \in Procs, u \in Users, op \in {"GetChat", "AppendMessage", "RunCompletion"} :
        \A c, d \in ChatIds :
            (Ready(p) /\ NotOwner(u, c) /\ NotOwner(u, d)) =>
                /\ \A o \in {"", ErrUnauthorized, ErrStore} :
                        Sees(p, op, u, c, o) <=> Sees(p, op, u, d, o)
                /\ ~Sees(p, op, u, c, "")
                /\ ~SeesMore(p, op, u, c)

\* "Ann" was turned away from a chat that does not exist, while ann's chat does
C13_Witness ==
    /\ Returned("GetChat")
    /\ ret.err = ErrUnauthorized
    /\ ret.user = "Ann"
    /\ ret.chat \notin DOMAIN chatowner
    /\ \E c \in DOMAIN chatowner : chatowner[c] = "ann" /\ chatmessages[c] # <<>>

\* The ids of list that are not in set, in the order of list
Except(list, set) == SelectSeq(list, LAMBDA x : x \notin set)

\* C14  ListChats is bounded and resilient (listings only, so the index stands still).
\* ListChats reads the first ListLast + 1 ids of the caller's index and returns, in
\* that order, the summaries of exactly those of them whose summary could be read, so
\* at most ListLast + 1 of them; a summary that cannot be read never makes the listing
\* fail: a listing that returns an error has skipped nothing (its LRange failed).
C14_ListChatsBounded ==
    Returned("ListChats") =>
        LET index == userchats[ret.user]
            window == SubSeq(index, 1, Min(Len(index), ListLast + 1))
        IN  IF ret.err = ""
            THEN /\ ret.ids = window
                 /\ ret.skipped \subseteq {window[i] : i \in 1..Len(window)}
                 /\ IdsOf(ret.summaries) = Except(window, ret.skipped)
                 /\ \A i \in 1..Len(ret.summaries) :
                        ret.summaries[i] = chatmeta[ret.summaries[i].id]
                 /\ Len(ret.summaries) <= ListLast + 1
            ELSE ret.ids = <<>> /\ ret.skipped = {} /\ ret.summaries = <<>>

\* Of 21 chats the newest could not be read: the next 19 are listed, the oldest is not
C14_Witness ==
    /\ Succeeded("ListChats")
    /\ Len(userchats[ret.user]) = ListLast + 2
    /\ ret.skipped = {Head(userchats[ret.user])}
    /\ Len(ret.summaries) = ListLast
    /\ ret.summaries[1].id = userchats[ret.user][2]
    /\ ret.summaries[ListLast].id = userchats[ret.user][ListLast + 1]

\* No AppendMessage or RunCompletion is running on chat c, and none has failed
Settled(c) ==
    /\ \A p \in Procs : ~(proc[p].pc # "ready" /\ proc[p].op \in Appends /\ proc[p].chat = c)
    /\ ~appendHist[c].failed

Covered(c) ==
    \A i \in 1..Len(chatmessages[c]) : chatmessages[c][i].createdAt <= chatmeta[c].updatedAt

\* C15 as stated.  Whenever no append to a chat is in flight and all of them returned
\* successfully, the chat's updatedAt is not earlier than the createdAt of any message
\* of its log, appends overlapping or not.
C15_UpdatedAtCoversLog ==
    \A c \in DOMAIN chatmeta : Settled(c) => Covered(c)

\* C15 as amended.  The same, for chats whose appends never overlapped.
C15_UpdatedAtCoversLogUnlessOverlap ==
    \A c \in DOMAIN chatmeta : (Settled(c) /\ ~appendHist[c].raced) => Covered(c)

\* A second append, later by the clock, has refreshed updatedAt
C15_Witness ==
    /\ Succeeded("AppendMessage")
    /\ Settled(ret.chat) /\ ~appendHist[ret.chat].raced
    /\ Len(chatmessages[ret.chat]) = 2
    /\ chatmessages[ret.chat][1].createdAt = 0
    /\ chatmessages[ret.chat][2].createdAt = MaxTime
    /\ chatmeta[ret.chat].updatedAt = MaxTime

MessageRoles == {"user", "assistant"}

\* C16  Message role domain.  Every message stored in a chat's log has role "user" or
\* "assistant", and so has every Message that AppendMessage or RunCompletion returns
\* on success: a call or a backend reply with another role stores nothing.
C16_RoleDomain ==
    /\ \A c \in DOMAIN chatmessages :
          \A i \in 1..Len(chatmessages[c]) : chatmessages[c][i].role \in MessageRoles
    /\ (Succeeded("AppendMessage") \/ Succeeded("RunCompletion")) =>
          ret.message.role \in MessageRoles

\* A NewChat, or an EnsureChat that found no chat, has saved a new chat in this step
Creates ==
    /\ ret'.pc = "done" /\ ret'.op \in {"NewChat", "EnsureChat"}
    /\ ret'.err = "" /\ ret'.wrote = 1

Range(list) == {list[i] : i \in 1..Len(list)}

\* The requests a resolver is asked with: "", "a", "b", "z"
RequestModels == {<<>>, <<97>>, <<98>>, <<122>>}

\* r is what the fallback rule gives for request m
Resolves(m, r) ==
    IF m \in Range(cfg.models) THEN r = m
    ELSE IF cfg.models # <<>> THEN r = cfg.models[1]
    ELSE r = m

\* C18  Model fallback.  For every request and every allow-list the resolver returns
\* the request if the list has it, else the list's first entry if there is one
\* (the empty request included), else the request; so with a non-empty list the result
\* is in the list, and resolving a result returns it.  UpdatePreferences answers
\* with, and stores in the session, the resolved model of the request it was sent,
\* and sessionPreferences answers with the resolved model of the session.
C18_ModelFallback ==
    /\ \A m \in RequestModels :
          /\ Resolves(m, ensureModel(m))
          /\ ensureModel(ensureModel(m)) = ensureModel(m)
          /\ cfg.models # <<>> => ensureModel(m) \in Range(cfg.models)
    /\ Succeeded("UpdatePreferences") =>
          /\ Resolves(ret.request, ret.model)
          /\ ret.model # <<>> => session.model = ret.model
    /\ Succeeded("sessionPreferences") => Resolves(session.model, ret.model)

\* A request for "z", which the list "a", "b" does not have, was answered with "a"
C18_Witness ==
    /\ Succeeded("UpdatePreferences")
    /\ cfg.models = <<<<97>>, <<98>>>>
    /\ ret.request = <<122>>
    /\ ret.model = <<97>> /\ session.model = <<97>>

InRange(t) == (Less(Tenth, t) \/ Equal(Tenth, t)) /\ (Less(t, One) \/ Equal(t, One))

\* C19  Temperature clamp.  The temperature UpdatePreferences stores and answers with
\* is 0.1 if the parsed input is below 0.1, 1.0 if it is above 1.0 and the input
\* itself otherwise, 0.5 taking the place of an input that does not parse; it lies
\* in [0.1, 1.0], as does the session's temperature at all times, and clamping it
\* again returns it.
C19_TemperatureClamp ==
    /\ InRange(session.temperature)
    /\ Succeeded("UpdatePreferences") =>
          LET parsed == ParseFloat(ret.tempValue)
              v == IF parsed.err THEN Half ELSE parsed.value
          IN  /\ Less(v, Tenth) => ret.temperature = Tenth
              /\ Less(One, v) => ret.temperature = One
              /\ (~Less(v, Tenth) /\ ~Less(One, v)) => ret.temperature = v
              /\ InRange(ret.temperature)
              /\ clampTemperature(ret.temperature) = ret.temperature
              /\ session.temperature = ret.temperature

IsPrefix(a, b) == Len(a) <= Len(b) /\ SubSeq(b, 1, Len(a)) = a

Count(list, v) == Cardinality({i \in 1..Len(list) : list[i] = v})

\* b holds the elements of a, each as often as a does
Permutation(a, b) ==
    Len(a) = Len(b) /\ \A i \in 1..Len(a) : Count(a, a[i]) = Count(b, a[i])

\* C20  Concurrent appends are never lost.  No step of any interleaving removes,
\* replaces or reorders a message of a log: the log before the step is a prefix of the
\* log after it.  And once the AppendMessage and RunCompletion calls on a chat have
\* all returned with no error, the log holds exactly the Messages they returned, each
\* as often as it was returned, in the order the store applied them.
C20_AppendsNotLost ==
    [][/\ \A c \in DOMAIN chatmessages : IsPrefix(chatmessages[c], chatmessages'[c])
       /\ \A c \in DOMAIN chatmeta' :
             Settled(c)' => Permutation(AsStored(appendHist'[c].returned), chatmessages'[c])]_vars

\* Two appends on one chat overlapped and both returned with no error; the store
\* applied them in the other order than they returned
C20_Witness ==
    \E c \in DOMAIN chatmeta :
        /\ Settled(c) /\ appendHist[c].raced
        /\ Len(appendHist[c].returned) = 2
        /\ chatmessages[c] = AsStored(<<appendHist[c].returned[2], appendHist[c].returned[1]>>)
        /\ chatmessages[c][1] # chatmessages[c][2]

\* Request p is at the RPush of an AppendMessage or RunCompletion on chat c
Pushing(p, c) == proc[p].pc = "push" /\ proc[p].op \in Appends /\ proc[p].chat = c

\* C21  Message logs are append-only.  In every step of every operation, failed and
\* unauthorized ones, touches and creations included, each chat's log before the step
\* is a prefix of its log after it; a log changes only by the RPush of an
\* AppendMessage or RunCompletion on that chat, which adds that request's message
\* at the tail, and no other log changes in that step.
C21_LogsAppendOnly ==
    [][\A c \in DOMAIN chatmessages :
          /\ IsPrefix(chatmessages[c], chatmessages'[c])
          /\ chatmessages'[c] # chatmessages[c] =>
                /\ \E p \in Procs :
                      /\ Pushing(p, c)
                      /\ chatmessages'[c] = Append(chatmessages[c], StoredMessage(proc[p].message))
                /\ \A d \in DOMAIN chatmessages \ {c} : chatmessages'[d] = chatmessages[d]]_vars

\* An AppendMessage of another user was refused on a chat whose log holds a message,
\* after the creation, the append and its touch
C21_Witness ==
    /\ Returned("AppendMessage") /\ ret.err = ErrUnauthorized
    /\ ret.chat \in DOMAIN chatowner
    /\ Len(chatmessages[ret.chat]) = 1
    /\ chatmessages[ret.chat] = AsStored(appended[ret.chat])

\* C22  AppendMessage is all-or-nothing towards its caller.  When it returns an error
\* it has written nothing: its message is not in the log, every message of the log
\* is one an append returned, and summary and index are as they were.  When it
\* returns success its message is in the log and the touch has been saved, the chat
\* at the head of the caller's index.
C22_AppendAllOrNothing ==
    /\ (Returned("AppendMessage") /\ ret.err # "") =>
          /\ ret.wrote = 0
          /\ \A i \in 1..Len(chatmessages[ret.chat]) :
                chatmessages[ret.chat][i] \in Range(AsStored(appendHist[ret.chat].returned))
    /\ Succeeded("AppendMessage") =>
          /\ ret.wrote = 2
          /\ StoredMessage(ret.message) \in Range(chatmessages[ret.chat])
          /\ Head(userchats[ret.user]) = ret.chat

\* C23  Concurrent EnsureChat creates at most one chat.  With EnsureChat the only
\* operation and every summary readable, no user ever owns more than one chat, and
\* an EnsureChat that returns success returns the one chat its caller owns.
C23_EnsureChatOnce ==
    /\ \A u \in Users : Cardinality(Owned(u)) <= 1
    /\ Succeeded("EnsureChat") => Owned(ret.user) = {ret.summary.id}

\* C24  Ownership is immutable.  No step of any operation of any user removes the
\* ownership record of a chat or changes the owner it names: the saveChatMeta of a
\* touch writes the owner again, and writes the same one, racing touches included.
C24_OwnerImmutable ==
    [][\A c \in DOMAIN chatowner :
          c \in DOMAIN chatowner' /\ chatowner'[c] = chatowner[c]]_vars

\* Two appends of the owner raced on one chat and both touches were saved
C24_Witness ==
    \E c \in DOMAIN chatowner :
        /\ appendHist[c].raced /\ Settled(c)
        /\ Len(appendHist[c].returned) = 2
        /\ Succeeded("AppendMessage") /\ ret.chat = c /\ ret.wrote = 2
        /\ chatowner[c] = ret.user

\* C25  Index and ownership agree.  In every state the ids of a user's index are
\* exactly the chats whose ownership record names that user, so no id is in the index
\* of a user who does not own it; and every summary a successful ListChats returns
\* is of a chat its caller owns.
C25_IndexMatchesOwner ==
    /\ \A u \in Users : Range(userchats[u]) = Owned(u)
    /\ Succeeded("ListChats") =>
          \A i \in 1..Len(ret.summaries) :
              /\ ret.summaries[i].id \in DOMAIN chatowner
              /\ chatowner[ret.summaries[i].id] = ret.user

\* Each of the two users owns a chat, and a ListChats has returned its caller's one
C25_Witness ==
    /\ Succeeded("ListChats")
    /\ Len(ret.summaries) = 1
    /\ \A u \in Users : Cardinality(Owned(u)) = 1
    /\ userchats[ret.user] = <<ret.summaries[1].id>>

\* This step is one of an AppendMessage or RunCompletion of user u on chat a: the
\* operation returns in it, or moves on to its next store call
AppendStep(a, u) ==
    \/ /\ ret'.pc = "done" /\ ret'.op \in Appends
       /\ ret'.chat = a /\ ret'.user = u
    \/ \E p \in Procs :
          /\ proc'[p] # proc[p] /\ proc'[p].pc # "ready"
          /\ proc'[p].op \in Appends
          /\ proc'[p].chat = a /\ proc'[p].user = u

\* C26  Operations on different chats do not interfere.  A step of an AppendMessage
\* or RunCompletion on chat a, successful or failing, creates no chat, leaves the
\* log, the summary and the owner of every other chat as they were and the indexes
\* of the other users too, and changes its caller's index, if at all, by moving a
\* to the front: the other ids keep their relative order.
C26_OtherChatsUntouched ==
    [][\A a \in ChatIds, u \in Users :
          AppendStep(a, u) =>
            /\ DOMAIN chatmeta' = DOMAIN chatmeta /\ DOMAIN chatowner' = DOMAIN chatowner
            /\ \A b \in ChatIds \ {a} :
                  /\ chatmessages'[b] = chatmessages[b]
                  /\ b \in DOMAIN chatmeta => chatmeta'[b] = chatmeta[b]
                  /\ b \in DOMAIN chatowner => chatowner'[b] = chatowner[b]
            /\ \A v \in Users \ {u} : userchats'[v] = userchats[v]
            /\ \/ userchats'[u] = userchats[u]
               \/ /\ a \in Range(userchats[u])
                  /\ userchats'[u] = <<a>> \o Without(userchats[u], a)]_vars

\* An append on the older of its caller's two chats has returned: that chat is now
\* ahead of the newer one, whose log is empty and whose summary is as created
C26_Witness ==
    /\ Succeeded("AppendMessage")
    /\ \E b \in DOMAIN chatmeta :
          /\ b > ret.chat
          /\ userchats[ret.user] = <<ret.chat, b>>
          /\ chatmessages[b] = <<>> /\ chatmessages[ret.chat] # <<>>
          /\ chatmeta[b].updatedAt < chatmeta[ret.chat].updatedAt

\* Request p is in the RunCompletion of a PostMessage
Completing(p) == proc[p].post /\ proc[p].op = "RunCompletion" /\ proc[p].pc # "ready"

\* m is a user message with content, stored in the log of chat c
UserTurnStored(m, c) ==
    /\ m.role = "user" /\ TrimSpace(m.content) # <<>>
    /\ StoredMessage(m) \in Range(chatmessages[c])

\* C27  Post-message ordering.  A PostMessage whose content is empty after trimming
\* returns in its first step, the store unchanged and no completion run.  A
\* PostMessage is in RunCompletion, and the backend has answered it, only after its
\* AppendMessage returned the user's message, which is then in the chat's log.  And
\* the step in which its AppendMessage returns an error ends the request: it never
\* reaches RunCompletion.
C27_PostMessageOrder ==
    [][/\ (ret'.pc = "done" /\ ret'.op = "PostMessage") =>
             /\ ret'.err \in {ErrMissing, ErrEmpty} /\ ret'.content = <<>>
             /\ UNCHANGED <<store, proc>>
       /\ \A p \in Procs :
             (Completing(p) => UserTurnStored(proc[p].userMessage, proc[p].chat))'
       /\ (ret'.pc = "done" /\ ret'.post /\ ret'.op = "RunCompletion") =>
             /\ UserTurnStored(ret.userMessage, ret.chat)'
             /\ ret'.reply # NoReply => ret'.reply.role \in ReplyRoles
       /\ (ret'.pc = "done" /\ ret'.post /\ ret'.op = "AppendMessage" /\ ret'.err # "") =>
             \A p \in Procs : proc'[p] # proc[p] => proc'[p] = Idle]_vars

\* A PostMessage has been answered "ok": the log ends with the user's message and the
\* backend's reply to it, in that order
C27_Witness ==
    /\ ret.pc = "done" /\ ret.post /\ PostResponse(ret) = "ok"
    /\ ret.op = "RunCompletion"
    /\ Len(chatmessages[ret.chat]) = 2
    /\ chatmessages[ret.chat][1] = StoredMessage(ret.userMessage)
    /\ chatmessages[ret.chat][2] = StoredMessage(ret.message)
    /\ ret.userMessage.role = "user" /\ ret.message.role = "assistant"

\* A callback of request p is let through to the exchange in this step
LetThrough(p) == proc[p].pc = "ready" /\ proc'[p].pc = "O_exchange"

====
